---- MODULE Spec2Model ----
(***************************************************************************)
(* Verification model of rotkehlchen's soft data-migration manager         *)
(* (rotkehlchen.data_migrations.manager.DataMigrationManager).             *)
(*                                                                         *)
(* The manager module itself is not part of the sources at hand; what is   *)
(* at hand is its test-suite                                               *)
(* (src/rotkehlchen/tests/data_migrations/test_migrations.py), which fixes *)
(* the observable behaviour of maybe_migrate_data() on the cases it        *)
(* exercises.  Definitions that no test decides follow section 4.4 of the  *)
(* specification and are marked as such in the model map.                  *)
(***************************************************************************)
EXTENDS Integers, Sequences, FiniteSets, TLC

(* ----------------------------- bounds --------------------------------- *)

\* number of migrations the application knows (the real list has at least 9)
NumMigrations == 3
\* number of maybe_migrate_data() calls in one behaviour
MaxCalls == 2
\* the total_steps a migration function announces to the progress handler
MaxSteps == 2
\* number of rule invocations on one transaction in one behaviour
MaxLogs == 2

(* --------------------------- constants -------------------------------- *)

\* test_migrations.py:12  LAST_DATA_MIGRATION, imported from the manager: the
\* highest migration version the application knows.  It is a module constant,
\* so patching MIGRATION_LIST in a test does not change it.
LAST_DATA_MIGRATION == NumMigrations

\* the settings table has no row named last_data_migration
\* (test_migrations.py:575  cursor.fetchone() is None)
ABSENT == -1

\* str(e) of the exceptions migration functions raise
\* (test_migrations.py:138  raise ValueError('ngmi'))
Messages == {"ngmi", "locked"}

Versions == 1..LAST_DATA_MIGRATION

\* the values of MIGRATION_LIST the tests install: ascending, duplicate-free
\* sequences of MigrationRecord versions ([], [v1], MIGRATION_LIST[3:7], ...)
RECURSIVE AscendingSeq(_)
AscendingSeq(S) ==
    IF S = {} THEN <<>>
    ELSE LET lo == CHOOSE v \in S : \A w \in S : v <= w
         IN  <<lo>> \o AscendingSeq(S \ {lo})

MigrationLists == {AscendingSeq(S) : S \in SUBSET Versions}

\* data_migration_version fixture values: None leaves the row out
InitialMarkers == {ABSENT} \cup (0..LAST_DATA_MIGRATION)

(* ----------------------------- state ---------------------------------- *)

VARIABLES
    MIGRATION_LIST,       \* the registered migrations, as their versions
    last_data_migration,  \* the persisted marker in settings, or ABSENT
    msg_aggregator,       \* [errors, warnings]: queued user notifications
    progress,             \* data_migration_status messages sent by this call
    pc,                   \* "idle" | "loop" | "in_migration"
    calls,                \* maybe_migrate_data() calls started so far
    m,                    \* marker value read at the start of the call
    selected,             \* migrations selected by the call, in order
    idx,                  \* position in selected of the current record
    total_steps,          \* progress handler: steps announced
    current_step,         \* progress handler: steps reported
    ran,                  \* history: versions invoked by the current call
    failed,               \* history: version that raised in this call, or 0
    failed_msg,           \* history: str(e) of that exception, or ""
    prev_failed,          \* history: version that raised in the call before
    errors0,              \* history: Len(errors) when the call started
    completed,            \* history: versions whose function ever returned
    db,                   \* the committed writes of migration functions
    tx,                   \* writes of the open write transaction
    db0,                  \* history: db when the current step started
    rolled_back           \* history: writes the last failing step had made

vars == <<MIGRATION_LIST, last_data_migration, msg_aggregator, progress, pc,
          calls, m, selected, idx, total_steps, current_step, ran, failed,
          failed_msg, prev_failed, errors0, completed, db, tx, db0,
          rolled_back>>

\* the stored data of the user database and its history
datavars == <<db, tx, db0, rolled_back>>

\* the state of the convex decoder (chain/ethereum/modules/convex/decoder.py)
VARIABLES
    transaction,          \* context.transaction: [from_address]
    decoded_events,       \* context.decoded_events: the HistoryEvents
    tx_log,               \* context.tx_log of the last rule invocation
    op,                   \* the last invocation: "none" | "decode" |
                          \*   "enrich" | "process"
    target,               \* index of context.event of the last enrichment
    returned,             \* what the last invocation returned or raised
    notified,             \* notify_user() calls of the last invocation
    before,               \* history: decoded_events before that invocation
    original,             \* history: decoded_events before any invocation
    history               \* history: the invocations so far, [op, log, target]

dvars == <<transaction, decoded_events, tx_log, op, target, returned,
           notified, before, original, history>>

\* the state of one EthereumInquirer.get_blocknumber_by_time() call
\* (chain/ethereum/node_inquirer.py)
VARIABLES
    request,              \* the arguments: [ts, etherscan, closest]
    ipc,                  \* "idle" | "etherscan" | "subgraph" | "done"
    asked,                \* history: the services queried, in order
    outcome               \* [kind, value]: what the call returned or raised

nvars == <<request, ipc, asked, outcome>>

\* two workers decoding a transaction each
VARIABLES
    workers,              \* worker -> its DecoderContext and loop position
    schedule              \* history: the workers in the order they stepped

wvars == <<workers, schedule>>

allvars == <<vars, dvars, nvars, wvars>>

\* everything but the migration manager
beside_manager == <<dvars, nvars, wvars>>

\* everything but the decoding of one transaction
beside_decoder == <<vars, nvars, wvars>>

\* no transaction is being decoded
DecoderIdle ==
    /\ transaction = [from_address |-> ""]
    /\ decoded_events = <<>>
    /\ tx_log = [address |-> "", topics |-> <<>>, data |-> <<>>]
    /\ op = "none"
    /\ target = 0
    /\ returned = ""
    /\ notified = <<>>
    /\ before = <<>>
    /\ original = <<>>
    /\ history = <<>>

\* no block number is being looked up
InquirerIdle ==
    /\ request = [ts |-> 0, etherscan |-> TRUE, closest |-> "before"]
    /\ ipc = "idle"
    /\ asked = <<>>
    /\ outcome = [kind |-> "none", value |-> 0]

\* no worker is decoding
WorkersIdle == workers = <<>> /\ schedule = <<>>

\* what a call keeps for itself or for the history
callvars == <<m, selected, idx, ran, failed, failed_msg, prev_failed, errors0>>

(* ---------------------------- helpers --------------------------------- *)

SelectPending_inclusive(list, marker) ==
    SelectSeq(list, LAMBDA v : v >= marker)

\* step 2: the records with version > marker, in list order
SelectPending(list, marker) ==
    SelectSeq(list, LAMBDA v : v > marker)

\* steps 1, 2 and 5: a database without the marker replays nothing
Pending(list, marker) ==
    IF marker = ABSENT THEN <<>> ELSE SelectPending(list, marker)

ErrorText_no_message(v, msg) ==
    "Failed to run soft data migration to version " \o ToString(v)

\* the plain string of an error report
ErrorText(v, msg) ==
    "Failed to run soft data migration to version " \o ToString(v)
        \o " due to " \o msg

add_error(agg, text) ==
    [agg EXCEPT !.errors = Append(@, text)]

ProgressMessage_stale_step(start, version, total, step) ==
    [start_version   |-> start,
     target_version  |-> LAST_DATA_MIGRATION,
     version         |-> version,
     total_steps     |-> total,
     current_step    |-> IF step = 0 THEN 0 ELSE step - 1]

\* one data_migration_status message
ProgressMessage(start, version, total, step) ==
    [start_version   |-> start,
     target_version  |-> LAST_DATA_MIGRATION,
     version         |-> version,
     total_steps     |-> total,
     current_step    |-> step]

MarkerForFreshDatabase_forgets == ABSENT

MarkerForFreshDatabase_next_version == LAST_DATA_MIGRATION + 1

\* step 5: the marker a database without one is given
MarkerForFreshDatabase == LAST_DATA_MIGRATION

MarkerAfterStep_deferred(marker, v) == marker

\* step 4d: the marker written after record v returned normally
MarkerAfterStep(marker, v) == v

MarkerAfterFailure_advances(marker, v) == v

\* step 4c: the marker after record v raised
MarkerAfterFailure(marker, v) == marker

MarkerAfterCompletedRun_last_step(marker) == marker

\* the marker a call leaves when its loop over the records ends without a
\* failure
MarkerAfterCompletedRun(marker) == LAST_DATA_MIGRATION

Rollback_keeps_writes(committed, open) == committed \cup open

\* a scoped write transaction left by an exception: its writes are undone
Rollback(committed, open) == committed

\* a scoped write transaction left normally: its writes are committed
Commit(committed, open) == committed \cup open

AfterFailure_continue(i) == [pc |-> "loop", idx |-> i + 1]

\* step 4c: a failure ends the call, the remaining records are not attempted
AfterFailure(i) == [pc |-> "idle", idx |-> i]

(* ------------------------------ Init ---------------------------------- *)

Init ==
    /\ MIGRATION_LIST \in MigrationLists
    /\ last_data_migration \in InitialMarkers
    /\ msg_aggregator = [errors |-> <<>>, warnings |-> <<>>]
    /\ progress = <<>>
    /\ pc = "idle"
    /\ calls = 0
    /\ m = ABSENT
    /\ selected = <<>>
    /\ idx = 0
    /\ total_steps = 0
    /\ current_step = 0
    /\ ran = <<>>
    /\ failed = 0
    /\ failed_msg = ""
    /\ prev_failed = 0
    /\ errors0 = 0
    /\ completed = {}
    /\ db = {}
    /\ tx = {}
    /\ db0 = {}
    /\ rolled_back = {}
    /\ DecoderIdle
    /\ InquirerIdle
    /\ WorkersIdle

(* ----------------------------- actions -------------------------------- *)

\* step 1 and 2, and the bookkeeping every call start shares
BeginCall ==
    /\ pc = "idle"
    /\ calls < MaxCalls
    /\ calls' = calls + 1
    /\ m' = last_data_migration
    /\ selected' = Pending(MIGRATION_LIST, last_data_migration)
    /\ idx' = 1
    /\ ran' = <<>>
    /\ prev_failed' = failed
    /\ failed' = 0
    /\ failed_msg' = ""
    /\ errors0' = Len(msg_aggregator.errors)
    /\ progress' = <<>>

\* maybe_migrate_data() on a fresh database: nothing runs, the marker is set
\* to the highest known version
CallFreshDatabase ==
    /\ last_data_migration = ABSENT
    /\ Pending(MIGRATION_LIST, last_data_migration) = <<>>
    /\ BeginCall
    /\ last_data_migration' = MarkerForFreshDatabase
    /\ UNCHANGED <<MIGRATION_LIST, msg_aggregator, pc, total_steps,
                   current_step, completed>>
    /\ UNCHANGED datavars
    /\ UNCHANGED beside_manager

\* step 3: maybe_migrate_data() with nothing newer than the marker is a no-op
CallNothingPending ==
    /\ last_data_migration # ABSENT
    /\ Pending(MIGRATION_LIST, last_data_migration) = <<>>
    /\ BeginCall
    /\ UNCHANGED <<MIGRATION_LIST, last_data_migration, msg_aggregator, pc,
                   total_steps, current_step, completed>>
    /\ UNCHANGED datavars
    /\ UNCHANGED beside_manager

\* maybe_migrate_data() with pending migrations: enter the loop of step 4
CallWithPending ==
    /\ Pending(MIGRATION_LIST, last_data_migration) # <<>>
    /\ BeginCall
    /\ pc' = "loop"
    /\ UNCHANGED <<MIGRATION_LIST, last_data_migration, msg_aggregator,
                   total_steps, current_step, completed>>
    /\ UNCHANGED datavars
    /\ UNCHANGED beside_manager

\* step 4a/4b: bind the progress handler to the record and invoke its function
StartMigration ==
    /\ pc = "loop"
    /\ idx <= Len(selected)
    /\ pc' = "in_migration"
    /\ ran' = Append(ran, selected[idx])
    /\ total_steps' = 0
    /\ current_step' = 0
    /\ progress' = Append(progress,
                          ProgressMessage(selected[1], selected[idx], 0, 0))
    /\ db0' = db
    /\ tx' = {}
    /\ UNCHANGED <<MIGRATION_LIST, last_data_migration, msg_aggregator, calls,
                   m, selected, idx, failed, failed_msg, prev_failed, errors0,
                   completed, db, rolled_back>>
    /\ UNCHANGED beside_manager

\* inside the function: progress_handler.set_total_steps(n)
set_total_steps(n) ==
    /\ pc = "in_migration"
    /\ current_step = 0
    /\ total_steps = 0
    /\ n > 0
    /\ total_steps' = n
    /\ UNCHANGED <<MIGRATION_LIST, last_data_migration, msg_aggregator,
                   progress, pc, calls, current_step, completed>>
    /\ UNCHANGED callvars
    /\ UNCHANGED datavars
    /\ UNCHANGED beside_manager

\* inside the function: progress_handler.new_step(...)
new_step ==
    /\ pc = "in_migration"
    /\ current_step < total_steps
    /\ current_step' = current_step + 1
    /\ progress' = Append(progress,
                          ProgressMessage(selected[1], selected[idx],
                                          total_steps, current_step + 1))
    /\ UNCHANGED <<MIGRATION_LIST, last_data_migration, msg_aggregator, pc,
                   calls, total_steps, completed>>
    /\ UNCHANGED callvars
    /\ UNCHANGED datavars
    /\ UNCHANGED beside_manager

\* inside the function: the storage mutation of the step, made through its
\* scoped write transaction
write_in_transaction ==
    /\ pc = "in_migration"
    /\ selected[idx] \notin tx
    /\ tx' = tx \cup {selected[idx]}
    /\ UNCHANGED <<MIGRATION_LIST, last_data_migration, msg_aggregator,
                   progress, pc, calls, total_steps, current_step, completed,
                   db, db0, rolled_back>>
    /\ UNCHANGED callvars
    /\ UNCHANGED beside_manager

\* step 4d: the function returned; commit the marker, go to the next record
MigrationReturns ==
    /\ pc = "in_migration"
    /\ last_data_migration' =
           MarkerAfterStep(last_data_migration, selected[idx])
    /\ completed' = completed \cup {selected[idx]}
    /\ idx' = idx + 1
    /\ pc' = "loop"
    /\ db' = Commit(db, tx)
    /\ tx' = {}
    /\ UNCHANGED <<MIGRATION_LIST, msg_aggregator, progress, calls, m,
                   selected, total_steps, current_step, ran, failed,
                   failed_msg, prev_failed, errors0, db0, rolled_back>>
    /\ UNCHANGED beside_manager

\* step 4c: the function raised; one error, the run stops, marker untouched
MigrationRaises(msg) ==
    /\ pc = "in_migration"
    /\ msg_aggregator' = add_error(msg_aggregator,
                                   ErrorText(selected[idx], msg))
    /\ last_data_migration' =
           MarkerAfterFailure(last_data_migration, selected[idx])
    /\ failed' = selected[idx]
    /\ failed_msg' = msg
    /\ pc' = AfterFailure(idx).pc
    /\ idx' = AfterFailure(idx).idx
    /\ db' = Rollback(db, tx)
    /\ tx' = {}
    /\ rolled_back' = tx
    /\ UNCHANGED <<MIGRATION_LIST, progress, calls, m, selected, total_steps,
                   current_step, ran, prev_failed, errors0, completed, db0>>
    /\ UNCHANGED beside_manager

\* the loop ran out of records without a failure
FinishRun ==
    /\ pc = "loop"
    /\ idx > Len(selected)
    /\ last_data_migration' = MarkerAfterCompletedRun(last_data_migration)
    /\ pc' = "idle"
    /\ UNCHANGED <<MIGRATION_LIST, msg_aggregator, progress, calls,
                   total_steps, current_step, completed>>
    /\ UNCHANGED callvars
    /\ UNCHANGED datavars
    /\ UNCHANGED beside_manager

Next ==
    \/ CallFreshDatabase
    \/ CallNothingPending
    \/ CallWithPending
    \/ StartMigration
    \/ \E n \in {MaxSteps} : set_total_steps(n)
    \/ new_step
    \/ write_in_transaction
    \/ MigrationReturns
    \/ \E msg \in Messages : MigrationRaises(msg)
    \/ FinishRun

Spec == Init /\ [][Next]_allvars

TypeOK ==
    /\ MIGRATION_LIST \in MigrationLists
    /\ last_data_migration \in InitialMarkers
    /\ pc \in {"idle", "loop", "in_migration"}
    /\ calls \in 0..MaxCalls
    /\ failed \in 0..LAST_DATA_MIGRATION
    /\ completed \subseteq Versions

(* ======================= properties of the manager ==================== *)

\* the call that was last started has ended
CallEnded == calls > 0 /\ pc = "idle"

\* the version that completed last before position i of ran, or the marker
\* the call read when there is none
CommittedBefore(i) == IF i = 1 THEN m ELSE ran[i - 1]

Range(seq) == {seq[i] : i \in DOMAIN seq}

Max(S) == CHOOSE v \in S : \A w \in S : w <= v

\* str(v) for the versions of the model
VersionString == <<"1", "2", "3", "4", "5", "6", "7", "8", "9">>

(* ------------------------------- C1 ----------------------------------- *)
\* C1: when a migration raised, the persisted marker after the call is not
\* the failing version: it is the version of the last migration that
\* completed in this call, or the value read at the start if none did.
C1_MarkerNotAdvancedOnFailure ==
    (CallEnded /\ failed # 0) =>
        /\ last_data_migration # failed
        /\ ran[Len(ran)] = failed
        /\ last_data_migration = CommittedBefore(Len(ran))

\* [v1 ok, v2 raises, v3] from marker 0 ends with marker 1
C1_Witness ==
    /\ CallEnded
    /\ MIGRATION_LIST = <<1, 2, 3>>
    /\ m = 0
    /\ ran = <<1, 2>>
    /\ failed = 2
    /\ last_data_migration = 1

(* ------------------------------- C2 ----------------------------------- *)
\* C2: once a migration raised inside a call, the call is over: the failing
\* version is the last one invoked and no higher version is invoked.
C2_StopsAtFailure ==
    failed # 0 =>
        /\ pc = "idle"
        /\ ran[Len(ran)] = failed
        /\ \A i \in DOMAIN ran : ran[i] <= failed

\* v2 raised while v3 was selected and still to come
C2_Witness ==
    /\ failed = 2
    /\ selected = <<1, 2, 3>>
    /\ ran = <<1, 2>>

(* ------------------------------- C3 ----------------------------------- *)
\* C3: a call in which version v raised with message msg has recorded
\* exactly one error, "Failed to run soft data migration to version v due to
\* msg", and no warning; a call in which nothing raised has recorded none.
C3_OneErrorPerFailure ==
    LET errors == msg_aggregator.errors IN
    /\ msg_aggregator.warnings = <<>>
    /\ (calls > 0 /\ failed = 0) => Len(errors) = errors0
    /\ (CallEnded /\ failed # 0) =>
           /\ Len(errors) = errors0 + 1
           /\ errors[Len(errors)] =
                  "Failed to run soft data migration to version "
                      \o VersionString[failed] \o " due to " \o failed_msg
           /\ (failed = 1 /\ failed_msg = "ngmi") =>
                  errors[Len(errors)] =
                      "Failed to run soft data migration to version 1 due to ngmi"

\* test_failed_migration: the single botched v1 from marker 0
C3_Witness ==
    /\ CallEnded
    /\ MIGRATION_LIST = <<1>>
    /\ m = 0
    /\ failed = 1
    /\ failed_msg = "ngmi"
    /\ Len(msg_aggregator.errors) = 1

(* ------------------------------- C4 ----------------------------------- *)
\* C4: with the marker present, a call invokes the registered migrations
\* with version > m in ascending order, each once, and none with version <= m:
\* what has been invoked is always a prefix of that list, and the whole of it
\* when the call ends without a failure.
C4_Expected == AscendingSeq({v \in Range(MIGRATION_LIST) : v > m})

C4_InvokesPendingInOrder ==
    (calls > 0 /\ m # ABSENT) =>
        /\ Len(ran) <= Len(C4_Expected)
        /\ ran = SubSeq(C4_Expected, 1, Len(ran))
        /\ (CallEnded /\ failed = 0) => ran = C4_Expected

\* [v1, v2, v3] with marker 1: exactly v2, v3
C4_Witness ==
    /\ CallEnded
    /\ failed = 0
    /\ MIGRATION_LIST = <<1, 2, 3>>
    /\ m = 1
    /\ ran = <<2, 3>>

(* ------------------------------- C5 ----------------------------------- *)
\* C5: a migration whose function has once returned normally is never
\* invoked again, in this call or in a later one.
C5_NoRerunOfCompleted ==
    pc = "in_migration" => selected[idx] \notin completed

\* a second call, after a call that completed v1 and failed in v2, is inside
\* a migration function
C5_Witness ==
    /\ calls = 2
    /\ pc = "in_migration"
    /\ prev_failed = 2
    /\ 1 \in completed

(* ------------------------------- C6 ----------------------------------- *)
\* C6: the marker is committed per step: while a migration function runs,
\* the persisted marker is the version of the migration that ran just before
\* it in this call, or the value read at the start for the first one.
C6_CommitPerStep ==
    pc = "in_migration" =>
        last_data_migration = CommittedBefore(Len(ran))

\* the second migration of a call is running
C6_Witness ==
    /\ pc = "in_migration"
    /\ m = 0
    /\ ran = <<1, 2>>
    /\ last_data_migration = 1

(* ------------------------------- C7 ----------------------------------- *)
\* C7: a call on a database without the marker invokes no migration and
\* leaves the marker at LAST_DATA_MIGRATION, whatever the registered list.
C7_FreshDatabase ==
    (calls > 0 /\ m = ABSENT) =>
        /\ pc = "idle"
        /\ ran = <<>>
        /\ completed = {}
        /\ last_data_migration = LAST_DATA_MIGRATION

\* all migrations registered, marker absent
C7_Witness ==
    /\ calls = 1
    /\ m = ABSENT
    /\ Len(MIGRATION_LIST) = LAST_DATA_MIGRATION
    /\ last_data_migration = LAST_DATA_MIGRATION

(* ------------------------------- C8 ----------------------------------- *)
\* C8 as stated: after a call in which every invoked migration returned
\* normally, the marker is the largest version among the migrations that
\* have completed.
C8_Original ==
    (CallEnded /\ failed = 0 /\ ran # <<>>) =>
        last_data_migration = Max(completed)

\* C8 amended: after a call that invoked migrations and saw none raise, the
\* marker is LAST_DATA_MIGRATION; that is the largest completed version
\* when the migration of version LAST_DATA_MIGRATION is registered.
C8_MarkerAfterSuccessfulRun ==
    (CallEnded /\ failed = 0 /\ ran # <<>>) =>
        /\ last_data_migration = LAST_DATA_MIGRATION
        /\ LAST_DATA_MIGRATION \in Range(MIGRATION_LIST) =>
               last_data_migration = Max(completed)

\* test_migration_1: only v1 registered, marker 0
C8_Witness ==
    /\ CallEnded
    /\ failed = 0
    /\ MIGRATION_LIST = <<1>>
    /\ m = 0
    /\ ran = <<1>>

(* ------------------------------- C9 ----------------------------------- *)
\* C9: no migration is invoked twice in one call, and the call after a
\* failing one selects, and so first invokes, the version that failed.
C9_RetryOnlyOnNextCall ==
    /\ \A i, j \in DOMAIN ran : ran[i] = ran[j] => i = j
    /\ prev_failed # 0 =>
           /\ selected # <<>>
           /\ selected[1] = prev_failed
           /\ ran # <<>> => ran[1] = prev_failed

\* the call after v2 failed has invoked v2
C9_Witness ==
    /\ calls = 2
    /\ prev_failed = 2
    /\ ran # <<>>
    /\ ran[1] = 2
    /\ 1 \in completed

(* ------------------------------- C10 ---------------------------------- *)
\* C10: a call that finds the marker present and no registered version
\* above it is a no-op: it ends at once, invokes nothing, and leaves the
\* marker, the notifications and the progress messages as they were.
C10_NothingAbove ==
    /\ last_data_migration # ABSENT
    /\ \A i \in DOMAIN MIGRATION_LIST :
           MIGRATION_LIST[i] <= last_data_migration

C10_NoOpWhenNothingPending ==
    [][(calls' = calls + 1 /\ C10_NothingAbove) =>
           /\ pc' = "idle"
           /\ ran' = <<>>
           /\ completed' = completed
           /\ last_data_migration' = last_data_migration
           /\ msg_aggregator' = msg_aggregator
           /\ progress' = <<>>]_vars

\* the second call right after a run that completed every migration
C10_Witness ==
    /\ calls = 2
    /\ pc = "idle"
    /\ completed = Versions
    /\ m = LAST_DATA_MIGRATION
    /\ ran = <<>>
    /\ last_data_migration = LAST_DATA_MIGRATION
    /\ progress = <<>>

C22_ProgressInOrder ==
    \A k \in DOMAIN progress :
        LET report == progress[k]
            first  == k = 1 \/ progress[k - 1].version # report.version
        IN
        /\ report.target_version = LAST_DATA_MIGRATION
        /\ report.start_version = selected[1]
        /\ report.version \in Range(ran)
        /\ k = Len(progress) => report.version = ran[Len(ran)]
        /\ first => report.current_step = 0
        /\ ~first =>
               /\ report.current_step = progress[k - 1].current_step + 1
               /\ report.total_steps # 0
        /\ report.total_steps # 0 => report.current_step <= report.total_steps
        /\ k > 1 => progress[k - 1].version <= report.version

\* the second migration of a call has reported its steps 0, 1 and 2
C22_Witness ==
    /\ ran = <<1, 2>>
    /\ Len(progress) > 3
    /\ progress[Len(progress)].version = 2
    /\ progress[Len(progress)].current_step = 2
    /\ progress[Len(progress) - 1].current_step = 1
    /\ progress[Len(progress) - 2].current_step = 0
    /\ progress[Len(progress)].start_version = 1

(* ------------------------------- C28 ---------------------------------- *)
\* C28 (as stated): the marker never decreases and, once present, is never
\* greater than the highest registered migration version; here for the
\* markers a call has written.
C28_Original ==
    (calls > 0 /\ last_data_migration # m) =>
        /\ last_data_migration >= m
        /\ MIGRATION_LIST # <<>>
        /\ last_data_migration <= Max(Range(MIGRATION_LIST))

\* C28 (amended): over any sequence of calls, successful or failing, the
\* marker never decreases and, once present, stays present and is never
\* greater than LAST_DATA_MIGRATION, the highest version the application
\* knows.
C28_MarkerMonotone ==
    [][/\ last_data_migration' >= last_data_migration
       /\ last_data_migration # ABSENT => last_data_migration' # ABSENT
       /\ last_data_migration <= LAST_DATA_MIGRATION
       /\ last_data_migration' <= LAST_DATA_MIGRATION]_vars

\* a call that failed in v2, then a call that completed the rest
C28_Witness ==
    /\ calls = 2
    /\ pc = "idle"
    /\ prev_failed = 2
    /\ failed = 0
    /\ m = 1
    /\ last_data_migration = LAST_DATA_MIGRATION

(* ------------------------------- C25 ---------------------------------- *)

\* migration functions fail fewer times than the caller calls
MaxFailures == MaxCalls - 1

\* a migration function raises while it still may
MigrationRaisesAgain(msg) ==
    /\ Len(msg_aggregator.errors) < MaxFailures
    /\ MigrationRaises(msg)

LiveNext ==
    \/ CallFreshDatabase
    \/ CallNothingPending
    \/ CallWithPending
    \/ StartMigration
    \/ write_in_transaction
    \/ MigrationReturns
    \/ \E msg \in Messages : MigrationRaisesAgain(msg)
    \/ FinishRun

\* the caller keeps calling maybe_migrate_data(), every migration function
\* returns or raises, and the functions raise finitely often; the progress
\* reports of the functions, which decide nothing, are left out
LiveSpec == Init /\ [][LiveNext]_allvars /\ WF_allvars(LiveNext)

\* there is something for the manager to do
C25_WorkToDo ==
    \/ last_data_migration = ABSENT
    \/ Pending(MIGRATION_LIST, last_data_migration) # <<>>

\* the manager is at rest with no registered version above the marker
C25_Settled ==
    /\ pc = "idle"
    /\ last_data_migration # ABSENT
    /\ \A i \in DOMAIN MIGRATION_LIST :
           MIGRATION_LIST[i] <= last_data_migration

\* C25 (as stated): if the functions fail finitely often and the caller
\* keeps calling, the marker eventually equals the highest registered
\* version, and from then on no migration function is invoked.
C25_Original ==
    <>[](/\ pc # "in_migration"
         /\ MIGRATION_LIST # <<>> =>
                last_data_migration = Max(Range(MIGRATION_LIST)))

\* C25 (amended): if the functions fail finitely often and the caller keeps
\* calling, then eventually and for ever no registered version is above the
\* marker and no migration function is invoked; the marker then equals
\* LAST_DATA_MIGRATION if it was absent or a registered version was above it.
C25_EventuallyMigrated ==
    /\ <>[]C25_Settled
    /\ C25_WorkToDo => <>[](last_data_migration = LAST_DATA_MIGRATION)

\* a call failed in v2 and the next one has brought the marker to the top
C25_Witness ==
    /\ calls = 2
    /\ pc = "idle"
    /\ prev_failed = 2
    /\ failed = 0
    /\ ran = <<2, 3>>
    /\ C25_Settled

(***************************************************************************)
(* The convex decoder: chain/ethereum/modules/convex/decoder.py            *)
(***************************************************************************)

(* --------------------- addresses, topics, assets ---------------------- *)

ZERO_ADDRESS == "0x0000000000000000000000000000000000000000"

\* keys of addresses_to_decoders() besides the pools
BOOSTER == "0xBooster"
CVX_LOCKER == "0xCvxLocker"
CVX_LOCKER_V2 == "0xCvxLockerV2"
CVX_REWARDS == "0xCvxRewards"
CVXCRV_REWARDS == "0xCvxCrvRewards"

\* address -> pool name
CONVEX_POOLS == ("0xPool" :> "cvxsteCRV")

CONVEX_VIRTUAL_REWARDS == {"0xVirtualRewards"}

CPT_CONVEX == "convex"

\* a 32-byte topic holding an address: 12 bytes of padding, then the address
AddressTopic(addr) == <<"000000000000000000000000", addr>>

\* the intermediary (abracadabra) contracts rewards are paid through
CONVEX_ABRAS_HEX == {AddressTopic("0xAbra")}

WITHDRAWAL_TOPICS == {"Withdrawn"}
REWARD_TOPICS == {"RewardPaid"}
ERC20_OR_ERC721_TRANSFER == "Transfer"

DEFAULT_DECODING_OUTPUT == "DEFAULT_DECODING_OUTPUT"
DEFAULT_ENRICHMENT_OUTPUT == "DEFAULT_ENRICHMENT_OUTPUT"

\* the exceptions resolve_to_crypto_asset() raises
AssetErrors == {"UnknownAsset", "WrongAssetType"}

\* the assets that resolve to a crypto asset, with their decimals
CryptoAssetDecimals == ("CRV" :> 1) @@ ("USDC" :> 0)

CryptoAssets == DOMAIN CryptoAssetDecimals

\* amounts are kept in units of 10^-UnitDecimals, the finest any asset has
UnitDecimals ==
    CHOOSE d \in {CryptoAssetDecimals[a] : a \in CryptoAssets} :
        \A a \in CryptoAssets : CryptoAssetDecimals[a] <= d

RECURSIVE Pow10(_)
Pow10(n) == IF n = 0 THEN 1 ELSE 10 * Pow10(n - 1)

(* ----------------------------- inputs --------------------------------- *)

Users == {"0xUser", "0xOther"}

EventKinds == {<<"SPEND", "NONE">>, <<"RECEIVE", "NONE">>,
               <<"RECEIVE", "REWARD">>}

NoNotes == ""
NoCounterparty == "None"

\* the HistoryEvents the generic decoding pass hands to the rules
EventValues ==
    {[event_type     |-> k[1],
      event_subtype  |-> k[2],
      asset          |-> a,
      amount         |-> 10,
      address        |-> addr,
      location_label |-> label,
      notes          |-> NoNotes,
      counterparty   |-> NoCounterparty] :
        k \in EventKinds,
        a \in CryptoAssets \cup {"xyz-not-an-asset"},
        addr \in {ZERO_ADDRESS} \cup DOMAIN CONVEX_POOLS,
        label \in Users}

\* context.decoded_events of a transaction: one event, or two of one account
EventLists ==
    {<<e>> : e \in EventValues}
        \cup {p \in EventValues \X EventValues :
                 p[1].location_label = p[2].location_label}

\* the logs a rule is handed: emitter, [signature, indexed address], [amount]
LogValues ==
    {[address |-> a, topics |-> <<sig, AddressTopic(who)>>, data |-> <<raw>>] :
        a \in DOMAIN CONVEX_POOLS \cup {BOOSTER, "0xToken"},
        sig \in WITHDRAWAL_TOPICS \cup REWARD_TOPICS
                    \cup {ERC20_OR_ERC721_TRANSFER, "Staked"},
        who \in Users \cup {"0xAbra"},
        raw \in {10}}

(* ---------------------------- helpers --------------------------------- *)

\* hex_or_bytes_to_int(data[0:32]): the first 32-byte word as an integer
hex_or_bytes_to_int(data) == data[1]

\* hex_or_bytes_to_address(topic): the last 20 bytes of the topic
hex_or_bytes_to_address(topic) == topic[2]

\* event.asset.resolve_to_crypto_asset() returns instead of raising
Resolves(asset) == asset \in CryptoAssets

\* amount_raw / 10 ** decimals, in units of 10^-UnitDecimals
asset_normalized_value(amount_raw, asset) ==
    amount_raw * Pow10(UnitDecimals - CryptoAssetDecimals[asset])

\* `x is False` for an address x: a ChecksumEvmAddress is a str, never the
\* object False
IsFalseObject(x) == FALSE

\* line 54: event.location_label == from_address == interacted_address is False
\* Python chains the comparison: (a == b) and (b == c) and (c is False)
ActingPartySkip(label, from, interacted) ==
    /\ label = from
    /\ from = interacted
    /\ IsFalseObject(interacted)

AmountSkip_wrong_address(event, amount) ==
    event.address = ZERO_ADDRESS /\ event.amount # amount

AmountSkip_no_waiver(event, amount) ==
    event.amount # amount

\* line 55
AmountSkip(event, amount) ==
    event.address # ZERO_ADDRESS /\ event.amount # amount

IsAt_any_subtype(event, type) ==
    event.event_type = type

IsAt_any_type(event, type) ==
    event.event_subtype = "NONE"

\* lines 59-60, 77-78, 111-112: event_type == type and event_subtype == NONE
IsAt(event, type) ==
    event.event_type = type /\ event.event_subtype = "NONE"

\* the f-strings of lines 66-93 and 117-119
Notes(verb, event, what, log) ==
    verb \o " " \o ToString(event.amount) \o " " \o event.asset \o what
        \o IF log.address \in DOMAIN CONVEX_POOLS
               THEN " " \o CONVEX_POOLS[log.address] \o " pool"
               ELSE ""

ReceiveKind_no_reward(topic) ==
    IF topic \in WITHDRAWAL_TOPICS THEN "withdrawal" ELSE "other"

ReceiveKind_reward_by_default(topic) ==
    IF topic \in WITHDRAWAL_TOPICS THEN "withdrawal" ELSE "reward"

\* lines 79 and 86: what the log's signature says about a received amount
ReceiveKind(topic) ==
    IF topic \in WITHDRAWAL_TOPICS THEN "withdrawal"
    ELSE IF topic \in REWARD_TOPICS THEN "reward"
    ELSE "other"

\* lines 52-93: the loop body for an event whose asset resolved
DecodeEvent(event, log, from) ==
    LET amount_raw == hex_or_bytes_to_int(log.data)
        interacted_address == hex_or_bytes_to_address(log.topics[2])
        amount == asset_normalized_value(amount_raw, event.asset)
    IN
    IF \/ ActingPartySkip(event.location_label, from, interacted_address)
       \/ AmountSkip(event, amount)
    THEN event
    ELSE IF IsAt(event, "SPEND")
    THEN IF event.address = ZERO_ADDRESS
         THEN [event EXCEPT
                  !.event_subtype = "RETURN_WRAPPED",
                  !.counterparty = CPT_CONVEX,
                  !.notes = Notes("Return", event, " to convex", log)]
         ELSE [event EXCEPT
                  !.event_type = "DEPOSIT",
                  !.counterparty = CPT_CONVEX,
                  !.notes = Notes("Deposit", event, " into convex", log)]
    ELSE IF IsAt(event, "RECEIVE")
    THEN IF ReceiveKind(log.topics[1]) = "withdrawal"
         THEN [event EXCEPT
                  !.event_type = "WITHDRAWAL",
                  !.notes = Notes("Withdraw", event, " from convex", log),
                  !.counterparty = CPT_CONVEX]
         ELSE IF ReceiveKind(log.topics[1]) = "reward"
         THEN [event EXCEPT
                  !.event_subtype = "REWARD",
                  !.counterparty = CPT_CONVEX,
                  !.notes = Notes("Claim", event, " reward from convex", log)]
         ELSE event
    ELSE event

AfterAssetError_break(events, i) == Len(events) + 1

\* lines 48-50: `continue` goes on with the next event
AfterAssetError(events, i) == i + 1

\* lines 45-94: the loop over context.decoded_events from index i on;
\* gives the events and the indexes notify_user() was called for
RECURSIVE DecodeLoop(_, _, _, _, _)
DecodeLoop(events, notes, i, log, from) ==
    IF i > Len(events)
    THEN [events |-> events, notified |-> notes]
    ELSE IF ~Resolves(events[i].asset)
    THEN DecodeLoop(events, Append(notes, <<i, CPT_CONVEX>>),
                    AfterAssetError(events, i), log, from)
    ELSE DecodeLoop([events EXCEPT ![i] = DecodeEvent(events[i], log, from)],
                    notes, i + 1, log, from)

\* lines 41-94: the whole rule; line 43 reads topics[1], which a log with a
\* single topic does not have
DecodeCall(events, log, from) ==
    IF Len(log.topics) < 2
    THEN [events |-> events, notified |-> <<>>, returned |-> "IndexError"]
    ELSE LET out == DecodeLoop(events, <<>>, 1, log, from)
         IN  [events   |-> out.events,
              notified |-> out.notified,
              returned |-> DEFAULT_DECODING_OUTPUT]

EnrichMatches_any_sender(event, log, from) ==
    /\ log.topics[1] = ERC20_OR_ERC721_TRANSFER
    /\ event.location_label = from
    /\ IsAt(event, "RECEIVE")

\* lines 107-113: the condition of the enrichment
EnrichMatches(event, log, from) ==
    /\ log.topics[1] = ERC20_OR_ERC721_TRANSFER
    /\ log.topics[2] \in CONVEX_ABRAS_HEX
    /\ event.location_label = from
    /\ IsAt(event, "RECEIVE")

\* lines 107-122; err is what resolve_to_crypto_asset() raises for an asset
\* that does not resolve
EnrichEvent(event, log, from, err) ==
    IF EnrichMatches(event, log, from)
    THEN IF Resolves(event.asset)
         THEN [event    |-> [event EXCEPT
                               !.event_subtype = "REWARD",
                               !.notes = Notes("Claim", event,
                                               " reward from convex", log),
                               !.counterparty = CPT_CONVEX],
               returned |-> DEFAULT_ENRICHMENT_OUTPUT]
         ELSE [event |-> event, returned |-> err]
    ELSE [event |-> event, returned |-> DEFAULT_ENRICHMENT_OUTPUT]

\* lines 124-136: address -> the rules for logs of that address
addresses_to_decoders ==
    [a \in {BOOSTER, CVX_LOCKER, CVX_LOCKER_V2, CVX_REWARDS, CVXCRV_REWARDS}
           \cup DOMAIN CONVEX_POOLS \cup CONVEX_VIRTUAL_REWARDS
        |-> <<"_decode_convex_events">>]

\* lines 141-142
enricher_rules == <<"_maybe_enrich_convex_transfers">>

\* the generic decoding loop's lookup of the rules for a log
RulesFor(address) ==
    IF address \in DOMAIN addresses_to_decoders
        THEN addresses_to_decoders[address]
        ELSE <<>>

(* ------------------------ decoder specification ----------------------- *)

\* the migration manager is not running
ManagerIdle ==
    /\ MIGRATION_LIST = <<>>
    /\ last_data_migration = ABSENT
    /\ msg_aggregator = [errors |-> <<>>, warnings |-> <<>>]
    /\ progress = <<>>
    /\ pc = "idle"
    /\ calls = 0
    /\ m = ABSENT
    /\ selected = <<>>
    /\ idx = 0
    /\ total_steps = 0
    /\ current_step = 0
    /\ ran = <<>>
    /\ failed = 0
    /\ failed_msg = ""
    /\ prev_failed = 0
    /\ errors0 = 0
    /\ completed = {}
    /\ db = {}
    /\ tx = {}
    /\ db0 = {}
    /\ rolled_back = {}

\* a transaction whose events the generic pass has produced
DecoderInit ==
    /\ ManagerIdle
    /\ transaction = [from_address |-> "0xUser"]
    /\ decoded_events \in EventLists
    /\ tx_log = [address |-> "", topics |-> <<>>, data |-> <<>>]
    /\ op = "none"
    /\ target = 0
    /\ returned = ""
    /\ notified = <<>>
    /\ before = <<>>
    /\ original = decoded_events
    /\ history = <<>>
    /\ InquirerIdle
    /\ WorkersIdle

\* ConvexDecoder._decode_convex_events(context)
decode_convex_events(log) ==
    LET out == DecodeCall(decoded_events, log, transaction.from_address)
    IN
    /\ op' = "decode"
    /\ history' = Append(history, [op |-> "decode", log |-> log, target |-> 0])
    /\ UNCHANGED original
    /\ tx_log' = log
    /\ target' = 0
    /\ before' = decoded_events
    /\ decoded_events' = out.events
    /\ notified' = out.notified
    /\ returned' = out.returned
    /\ UNCHANGED transaction
    /\ UNCHANGED beside_decoder

\* ConvexDecoder._maybe_enrich_convex_transfers(context), context.event being
\* decoded_events[i]
maybe_enrich_convex_transfers(log, i, err) ==
    LET out == EnrichEvent(decoded_events[i], log,
                           transaction.from_address, err)
    IN
    /\ op' = "enrich"
    /\ history' = Append(history, [op |-> "enrich", log |-> log, target |-> i])
    /\ UNCHANGED original
    /\ tx_log' = log
    /\ target' = i
    /\ before' = decoded_events
    /\ decoded_events' = [decoded_events EXCEPT ![i] = out.event]
    /\ notified' = <<>>
    /\ returned' = out.returned
    /\ UNCHANGED transaction
    /\ UNCHANGED beside_decoder

\* the generic decoding loop on one log: the rules registered for the log's
\* address, then the enrichment rules on the event paired with the log
process_log(log, i, err) ==
    LET rules == RulesFor(log.address)
        dec  == IF rules # <<>>
                    THEN DecodeCall(decoded_events, log,
                                    transaction.from_address)
                    ELSE [events   |-> decoded_events,
                          notified |-> <<>>,
                          returned |-> DEFAULT_DECODING_OUTPUT]
        out  == IF dec.returned = DEFAULT_DECODING_OUTPUT
                    THEN EnrichEvent(dec.events[i], log,
                                     transaction.from_address, err)
                    ELSE [event |-> dec.events[i], returned |-> dec.returned]
    IN
    /\ op' = "process"
    /\ history' = Append(history, [op |-> "process", log |-> log, target |-> i])
    /\ UNCHANGED original
    /\ tx_log' = log
    /\ target' = i
    /\ before' = decoded_events
    /\ decoded_events' = [dec.events EXCEPT ![i] = out.event]
    /\ notified' = dec.notified
    /\ returned' = out.returned
    /\ UNCHANGED transaction
    /\ UNCHANGED beside_decoder

\* the first invocation of a rule on the transaction
DecodeOnce(log) ==
    history = <<>> /\ decode_convex_events(log)

EnrichOnce(log, i, err) ==
    history = <<>> /\ maybe_enrich_convex_transfers(log, i, err)

ProcessOnce(log, i, err) ==
    history = <<>> /\ process_log(log, i, err)

\* one invocation on the transaction
DecoderNext ==
    \/ \E log \in LogValues : DecodeOnce(log)
    \/ \E log \in LogValues, i \in DOMAIN decoded_events, err \in AssetErrors :
           EnrichOnce(log, i, err)
    \/ \E log \in LogValues, i \in DOMAIN decoded_events, err \in AssetErrors :
           ProcessOnce(log, i, err)

DecoderSpec == DecoderInit /\ [][DecoderNext]_allvars

(* --------------------------- decoder claims --------------------------- *)

\* the address the log's second topic holds
Interacted == hex_or_bytes_to_address(tx_log.topics[2])

\* the log's amount in the units of event i's asset
LogAmount(i) ==
    asset_normalized_value(hex_or_bytes_to_int(tx_log.data), before[i].asset)

\* event i was (SPEND|RECEIVE, NONE) when the rule was invoked
WasAt(i, type) ==
    before[i].event_type = type /\ before[i].event_subtype = "NONE"

Untouched(i) == decoded_events[i] = before[i]

\* event i now has this classification, the convex tag and a description
NowClassified(i, type, subtype) ==
    /\ decoded_events[i].event_type = type
    /\ decoded_events[i].event_subtype = subtype
    /\ decoded_events[i].counterparty = CPT_CONVEX
    /\ decoded_events[i].notes # NoNotes
    /\ decoded_events[i].asset = before[i].asset
    /\ decoded_events[i].amount = before[i].amount
    /\ decoded_events[i].address = before[i].address
    /\ decoded_events[i].location_label = before[i].location_label

\* C12 (as stated): _decode_convex_events mutates an event only if its
\* location_label, the transaction's from_address and the address in
\* topics[1] are all three equal.
C12_MutatesOnlyActingParty ==
    op = "decode" =>
        \A i \in DOMAIN before :
            ~Untouched(i) =>
                /\ before[i].location_label = transaction.from_address
                /\ transaction.from_address = Interacted

\* C13: an event with a non-zero address whose amount differs from the log's
\* normalized amount is left completely unchanged by _decode_convex_events,
\* whatever its type, its subtype and the log's signature.
C13_AmountMismatchUnchanged ==
    op = "decode" =>
        \A i \in DOMAIN before :
            (/\ before[i].address # ZERO_ADDRESS
             /\ Resolves(before[i].asset)
             /\ before[i].amount # LogAmount(i)) => Untouched(i)

C13_Witness ==
    /\ op = "decode"
    /\ \E i \in DOMAIN before :
          /\ WasAt(i, "SPEND")
          /\ before[i].address # ZERO_ADDRESS
          /\ Resolves(before[i].asset)
          /\ before[i].amount # LogAmount(i)
          /\ before[i].location_label = transaction.from_address
          /\ transaction.from_address = Interacted
          /\ Untouched(i)

\* C14: a (SPEND, NONE) event at the zero address (whose asset resolves)
\* becomes (SPEND, RETURN_WRAPPED) with the convex tag whatever its amount,
\* also when the amount differs from the log's normalized amount.
C14_ZeroAddressBypass ==
    op = "decode" =>
        \A i \in DOMAIN before :
            (/\ WasAt(i, "SPEND")
             /\ before[i].address = ZERO_ADDRESS
             /\ Resolves(before[i].asset))
                => NowClassified(i, "SPEND", "RETURN_WRAPPED")

C14_Witness ==
    /\ op = "decode"
    /\ \E i \in DOMAIN before :
          /\ WasAt(i, "SPEND")
          /\ before[i].address = ZERO_ADDRESS
          /\ Resolves(before[i].asset)
          /\ before[i].amount # LogAmount(i)
          /\ decoded_events[i].event_subtype = "RETURN_WRAPPED"

\* C15: an event whose subtype is not NONE when _decode_convex_events or
\* _maybe_enrich_convex_transfers is invoked has no field changed by it.
C15_ClassifiedEventsUntouched ==
    op # "none" =>
        \A i \in DOMAIN before :
            before[i].event_subtype # "NONE" => Untouched(i)

C15_Witness ==
    /\ op = "decode"
    /\ tx_log.topics[1] \in WITHDRAWAL_TOPICS
    /\ \E i \in DOMAIN before :
          /\ before[i].event_type = "RECEIVE"
          /\ before[i].event_subtype = "REWARD"
          /\ Resolves(before[i].asset)
          /\ before[i].amount = LogAmount(i)
          /\ before[i].location_label = transaction.from_address
          /\ transaction.from_address = Interacted
          /\ Untouched(i)

\* C16: for an event that passes the correlation checks, the rule yields:
\* (SPEND, NONE) at a non-zero address -> (DEPOSIT, NONE); (RECEIVE, NONE)
\* with a withdrawal signature -> (WITHDRAWAL, NONE), with a reward
\* signature -> (RECEIVE, REWARD), with neither -> untouched; each
\* reclassification sets the convex tag and the notes.
C16_Classification ==
    op = "decode" =>
        \A i \in DOMAIN before :
            (/\ Resolves(before[i].asset)
             /\ (before[i].address = ZERO_ADDRESS
                    \/ before[i].amount = LogAmount(i))) =>
                /\ (WasAt(i, "SPEND") /\ before[i].address # ZERO_ADDRESS)
                       => NowClassified(i, "DEPOSIT", "NONE")
                /\ (WasAt(i, "RECEIVE")
                        /\ tx_log.topics[1] \in WITHDRAWAL_TOPICS)
                       => NowClassified(i, "WITHDRAWAL", "NONE")
                /\ (WasAt(i, "RECEIVE")
                        /\ tx_log.topics[1] \in REWARD_TOPICS)
                       => NowClassified(i, "RECEIVE", "REWARD")
                /\ (WasAt(i, "RECEIVE")
                        /\ tx_log.topics[1] \notin WITHDRAWAL_TOPICS
                        /\ tx_log.topics[1] \notin REWARD_TOPICS)
                       => Untouched(i)

C16_Witness ==
    /\ op = "decode"
    /\ tx_log.topics[1] \in REWARD_TOPICS
    /\ Len(before) > 1
    /\ WasAt(1, "SPEND") /\ before[1].address # ZERO_ADDRESS
    /\ WasAt(2, "RECEIVE")
    /\ decoded_events[1].event_type = "DEPOSIT"
    /\ decoded_events[1].event_subtype = "NONE"
    /\ decoded_events[2].event_type = "RECEIVE"
    /\ decoded_events[2].event_subtype = "REWARD"
    /\ decoded_events[2].notes # NoNotes

\* the log's signature is in neither topic set
UnrecognizedSignature ==
    /\ tx_log.topics[1] \notin WITHDRAWAL_TOPICS
    /\ tx_log.topics[1] \notin REWARD_TOPICS

\* C17 (as stated): decoding a log whose signature is in neither topic set
\* mutates no event and emits no notification.
C17_Original ==
    (op = "decode" /\ UnrecognizedSignature) =>
        /\ decoded_events = before
        /\ notified = <<>>

\* C17 (amended): decoding a log whose signature is in neither topic set
\* leaves every event that is not at (SPEND, NONE) unchanged, and notifies
\* exactly for the events whose asset does not resolve.
C17_UnrecognizedSignature ==
    (op = "decode" /\ UnrecognizedSignature) =>
        /\ \A i \in DOMAIN before : ~WasAt(i, "SPEND") => Untouched(i)
        /\ \A i \in DOMAIN before :
               (\E k \in DOMAIN notified : notified[k][1] = i)
                   <=> ~Resolves(before[i].asset)

C17_Witness ==
    /\ op = "decode"
    /\ UnrecognizedSignature
    /\ notified = <<>>
    /\ \E i \in DOMAIN before :
          /\ WasAt(i, "RECEIVE")
          /\ before[i].amount = LogAmount(i)
          /\ before[i].location_label = transaction.from_address
          /\ transaction.from_address = Interacted
          /\ Untouched(i)

\* a sequence without its i-th element
RemoveAt(seq, i) ==
    [k \in 1..(Len(seq) - 1) |-> IF k < i THEN seq[k] ELSE seq[k + 1]]

\* C18: when resolving event i's asset raises inside _decode_convex_events,
\* one notification is emitted for that event, the event is unchanged, the
\* rule returns normally, and the other events are classified as if event i
\* were absent.
C18_AssetErrorSkipsEvent ==
    op = "decode" =>
        \A i \in DOMAIN before :
            ~Resolves(before[i].asset) =>
                /\ Cardinality({k \in DOMAIN notified :
                                    notified[k] = <<i, CPT_CONVEX>>}) = 1
                /\ Untouched(i)
                /\ returned = DEFAULT_DECODING_OUTPUT
                /\ RemoveAt(decoded_events, i)
                       = DecodeLoop(RemoveAt(before, i), <<>>, 1, tx_log,
                                    transaction.from_address).events

C18_Witness ==
    /\ op = "decode"
    /\ Len(before) > 1
    /\ ~Resolves(before[1].asset)
    /\ notified = <<<<1, CPT_CONVEX>>>>
    /\ Untouched(1)
    /\ WasAt(2, "SPEND")
    /\ decoded_events[2].event_type = "DEPOSIT"

\* the log's emitter has no rule registered
Unregistered == tx_log.address \notin DOMAIN addresses_to_decoders

\* C19 (as stated): processing a log whose emitter is not a key of
\* addresses_to_decoders() mutates no event of the transaction.
C19_Original ==
    (op = "process" /\ Unregistered) => decoded_events = before

\* C19 (amended): processing a log whose emitter is not a key of
\* addresses_to_decoders() emits no notification and mutates no event but,
\* possibly, the one paired with the log: that one only if the log is a
\* transfer from an allow-listed contract and the event was the transaction
\* sender's (RECEIVE, NONE) event, which becomes (RECEIVE, REWARD).
C19_UnregisteredOnlyEnriched ==
    (op = "process" /\ Unregistered) =>
        /\ notified = <<>>
        /\ \A i \in DOMAIN before :
               ~Untouched(i) =>
                   /\ i = target
                   /\ tx_log.topics[1] = ERC20_OR_ERC721_TRANSFER
                   /\ tx_log.topics[2] \in CONVEX_ABRAS_HEX
                   /\ before[i].location_label = transaction.from_address
                   /\ WasAt(i, "RECEIVE")
                   /\ NowClassified(i, "RECEIVE", "REWARD")

C19_Witness ==
    /\ op = "process"
    /\ Unregistered
    /\ tx_log.topics[1] \in WITHDRAWAL_TOPICS
    /\ decoded_events = before
    /\ \E i \in DOMAIN before :
          /\ WasAt(i, "RECEIVE")
          /\ Resolves(before[i].asset)
          /\ before[i].amount = LogAmount(i)

\* the four conditions of the enrichment hold for the event it was handed
FourConditions ==
    /\ tx_log.topics[1] = ERC20_OR_ERC721_TRANSFER
    /\ tx_log.topics[2] \in CONVEX_ABRAS_HEX
    /\ before[target].location_label = transaction.from_address
    /\ WasAt(target, "RECEIVE")

\* C20 (as stated): _maybe_enrich_convex_transfers makes its event
\* (RECEIVE, REWARD) with the convex tag and notes if and only if the four
\* conditions hold; otherwise it changes nothing, does not raise and returns
\* the default enrichment output.
C20_EnrichesIffFourConditions ==
    op = "enrich" =>
        /\ \A i \in DOMAIN before : i # target => Untouched(i)
        /\ FourConditions => NowClassified(target, "RECEIVE", "REWARD")
        /\ ~FourConditions =>
               /\ Untouched(target)
               /\ returned = DEFAULT_ENRICHMENT_OUTPUT

(***************************************************************************)
(* EthereumInquirer.get_blocknumber_by_time:                               *)
(* chain/ethereum/node_inquirer.py                                         *)
(***************************************************************************)

Timestamps == {1600000000, 1650000000, 1700000000}

\* the block numbers the services know, as the subgraph spells them
BlockNumbers ==
    ("10950000" :> 10950000) @@ ("14680000" :> 14680000)
        @@ ("18470000" :> 18470000)

\* int(text) for the text of a block number
python_int(text) == BlockNumbers[text]

\* what self.etherscan.get_blocknumber_by_time(ts, closest) does: it returns
\* a block number, raises RemoteError, or raises something else
EtherscanAnswers ==
    {[kind |-> "block", value |-> python_int(t)] : t \in DOMAIN BlockNumbers}
        \cup {[kind |-> "RemoteError", value |-> 0],
              [kind |-> "Exception", value |-> 0]}

\* what self.blocks_subgraph.query(...) does: it raises RemoteError, or
\* returns a response: with a block, with no block, without the blocks key,
\* with a block that has no number
SubgraphAnswers ==
    {[kind |-> "response", blocks |-> <<[number |-> t]>>] :
        t \in DOMAIN BlockNumbers}
        \cup {[kind |-> "response", blocks |-> <<>>],
              [kind |-> "response", data |-> <<>>],
              [kind |-> "response", blocks |-> <<[id |-> "0xabc"]>>],
              [kind |-> "RemoteError"]}

Suppressed_any(kind) == TRUE

\* line 370: with suppress(RemoteError)
Suppressed(kind) == kind = "RemoteError"

\* lines 349-356: int(response['blocks'][0]['number']), IndexError and
\* KeyError turned into RemoteError
BlockOfResponse(response) ==
    IF "blocks" \notin DOMAIN response
        THEN [kind |-> "RemoteError", value |-> 0]
    ELSE IF Len(response.blocks) = 0
        THEN [kind |-> "RemoteError", value |-> 0]
    ELSE IF "number" \notin DOMAIN response.blocks[1]
        THEN [kind |-> "RemoteError", value |-> 0]
    ELSE [kind |-> "block", value |-> python_int(response.blocks[1].number)]

\* lines 358-369: the call is made; line 369 picks the first service
get_blocknumber_by_time(ts, etherscan, closest) ==
    /\ ipc = "idle"
    /\ request' = [ts |-> ts, etherscan |-> etherscan, closest |-> closest]
    /\ ipc' = IF etherscan THEN "etherscan" ELSE "subgraph"
    /\ UNCHANGED <<asked, outcome>>
    /\ UNCHANGED <<vars, dvars, wvars>>

\* lines 370-371: self.etherscan.get_blocknumber_by_time(ts, closest) ends
etherscan_get_blocknumber_by_time(answer) ==
    /\ ipc = "etherscan"
    /\ asked' = Append(asked, [service |-> "etherscan", answer |-> answer])
    /\ IF answer.kind = "block"
           THEN /\ outcome' = [kind |-> "returned", value |-> answer.value]
                /\ ipc' = "done"
       ELSE IF Suppressed(answer.kind)
           THEN /\ ipc' = "subgraph"
                /\ UNCHANGED outcome
       ELSE /\ outcome' = [kind |-> answer.kind, value |-> 0]
            /\ ipc' = "done"
    /\ UNCHANGED request
    /\ UNCHANGED <<vars, dvars, wvars>>

\* lines 333-356 and 373: _get_blocknumber_by_time_from_subgraph(ts)
get_blocknumber_by_time_from_subgraph(answer) ==
    LET block == IF answer.kind = "response"
                     THEN BlockOfResponse(answer)
                     ELSE [kind |-> answer.kind, value |-> 0]
    IN
    /\ ipc = "subgraph"
    /\ asked' = Append(asked, [service |-> "subgraph", answer |-> answer])
    /\ outcome' = IF block.kind = "block"
                      THEN [kind |-> "returned", value |-> block.value]
                      ELSE [kind |-> block.kind, value |-> 0]
    /\ ipc' = "done"
    /\ UNCHANGED request
    /\ UNCHANGED <<vars, dvars, wvars>>

InquirerInit ==
    /\ ManagerIdle
    /\ DecoderIdle
    /\ InquirerIdle
    /\ WorkersIdle

InquirerNext ==
    \/ \E ts \in Timestamps, etherscan \in BOOLEAN,
         closest \in {"before", "after"} :
           get_blocknumber_by_time(ts, etherscan, closest)
    \/ \E answer \in EtherscanAnswers :
           etherscan_get_blocknumber_by_time(answer)
    \/ \E answer \in SubgraphAnswers :
           get_blocknumber_by_time_from_subgraph(answer)

InquirerSpec == InquirerInit /\ [][InquirerNext]_allvars

\* the services asked so far, in order
Services == [k \in DOMAIN asked |-> asked[k].service]

\* the subgraph answered with a response that names no block
NoBlockInResponse(answer) ==
    /\ answer.kind = "response"
    /\ \/ "blocks" \notin DOMAIN answer
       \/ answer.blocks = <<>>

\* C24: with etherscan=True Etherscan is asked first and its answer is
\* returned when it succeeds; the subgraph is queried only after Etherscan
\* raised RemoteError; with etherscan=False only the subgraph is queried; a
\* subgraph response without a block ends the call with RemoteError, and the
\* subgraph is never queried twice.
C24_EtherscanThenSubgraph ==
    /\ Len(asked) < 3
    /\ \A k \in DOMAIN asked : asked[k].service = "subgraph" => k = Len(asked)
    /\ (request.etherscan /\ asked # <<>>) =>
           /\ asked[1].service = "etherscan"
           /\ asked[1].answer.kind = "block" =>
                  /\ asked = <<asked[1]>>
                  /\ outcome = [kind |-> "returned",
                                value |-> asked[1].answer.value]
           /\ Len(asked) > 1 =>
                  /\ asked[1].answer.kind = "RemoteError"
                  /\ asked[2].service = "subgraph"
    /\ ~request.etherscan =>
           \A k \in DOMAIN asked : asked[k].service = "subgraph"
    /\ ipc = "done" =>
           /\ asked # <<>>
           /\ (/\ asked[Len(asked)].service = "subgraph"
               /\ NoBlockInResponse(asked[Len(asked)].answer))
                  => outcome = [kind |-> "RemoteError", value |-> 0]
           /\ (~request.etherscan) => Services = <<"subgraph">>

\* Etherscan raised RemoteError, then the subgraph knew no block
C24_Witness ==
    /\ ipc = "done"
    /\ request.etherscan
    /\ Services = <<"etherscan", "subgraph">>
    /\ asked[1].answer.kind = "RemoteError"
    /\ asked[2].answer = [kind |-> "response", blocks |-> <<>>]
    /\ outcome.kind = "RemoteError"

(***************************************************************************)
(* Several logs of one transaction, decoded one after the other            *)
(***************************************************************************)

\* unclassified events of the sender whose assets resolve
SeqEventValues ==
    {e \in EventValues :
        /\ e.event_subtype = "NONE"
        /\ e.location_label = "0xUser"
        /\ Resolves(e.asset)}

\* one event, or a spend followed by a receive
SeqEventLists ==
    {<<e>> : e \in SeqEventValues}
        \cup {p \in SeqEventValues \X SeqEventValues :
                 p[1].event_type = "SPEND" /\ p[2].event_type = "RECEIVE"}

\* logs of a pool: with the sender as indexed address, a transfer from an
\* allow-listed contract, and an event without indexed arguments
SeqLogValues ==
    {l \in LogValues :
        /\ l.address \in DOMAIN CONVEX_POOLS
        /\ \/ /\ l.topics[1] # ERC20_OR_ERC721_TRANSFER
              /\ l.topics[2] = AddressTopic("0xUser")
           \/ /\ l.topics[1] = ERC20_OR_ERC721_TRANSFER
              /\ l.topics[2] \in CONVEX_ABRAS_HEX}
        \cup {[address |-> a, topics |-> <<"RewardAdded">>, data |-> <<10>>] :
                 a \in DOMAIN CONVEX_POOLS}

SeqInit ==
    /\ ManagerIdle
    /\ InquirerIdle
    /\ WorkersIdle
    /\ transaction = [from_address |-> "0xUser"]
    /\ decoded_events \in SeqEventLists
    /\ tx_log = [address |-> "", topics |-> <<>>, data |-> <<>>]
    /\ op = "none"
    /\ target = 0
    /\ returned = ""
    /\ notified = <<>>
    /\ before = <<>>
    /\ original = decoded_events
    /\ history = <<>>

\* the rule is invoked for the next log of the transaction
DecodeNextLog(log) ==
    Len(history) < MaxLogs /\ decode_convex_events(log)

\* the enrichment is invoked for an event and its log
EnrichNextLog(log, i, err) ==
    Len(history) < MaxLogs /\ maybe_enrich_convex_transfers(log, i, err)

SeqNext ==
    \/ \E log \in SeqLogValues : DecodeNextLog(log)
    \/ \E log \in SeqLogValues, i \in DOMAIN decoded_events,
         err \in AssetErrors :
           EnrichNextLog(log, i, err)

SeqSpec == SeqInit /\ [][SeqNext]_allvars

\* no event was created, deleted or moved, and the fields the rules never
\* write hold their original values
FrameKept ==
    /\ Len(decoded_events) = Len(original)
    /\ \A i \in DOMAIN original :
          /\ decoded_events[i].asset = original[i].asset
          /\ decoded_events[i].amount = original[i].amount
          /\ decoded_events[i].address = original[i].address
          /\ decoded_events[i].location_label = original[i].location_label

\* C21 (as stated): after any sequence of decoded logs the event list has
\* its length and order, asset, balance.amount, address and location_label
\* of every event hold their original values, and every call of
\* _decode_convex_events returned the default decoding output.
C21_FrameAndDefaultOutput ==
    /\ FrameKept
    /\ op = "decode" => returned = DEFAULT_DECODING_OUTPUT

\* what a classification consists of
Classification(event) ==
    <<event.event_type, event.event_subtype, event.counterparty, event.notes>>

\* C26: over any sequence of _decode_convex_events and
\* _maybe_enrich_convex_transfers invocations each event is reclassified at
\* most once: an event whose classification is no longer its original one
\* keeps its event_type, event_subtype, counterparty and notes in every
\* later invocation.
C26_ReclassifiedAtMostOnce ==
    [][\A i \in DOMAIN original :
           Classification(decoded_events[i]) # Classification(original[i])
               => Classification(decoded_events'[i])
                      = Classification(decoded_events[i])]_allvars

\* a receive that a first log made (WITHDRAWAL, NONE) met a matching reward
\* log and stayed as it was
C26_Witness ==
    /\ Len(history) > 1
    /\ op = "decode"
    /\ tx_log.topics[1] \in REWARD_TOPICS
    /\ original[1].event_type = "RECEIVE"
    /\ before[1].event_type = "WITHDRAWAL"
    /\ before[1].event_subtype = "NONE"
    /\ before[1].amount = LogAmount(1)
    /\ decoded_events[1] = before[1]

\* invocation k was _decode_convex_events on a withdrawal or reward log that
\* passes the correlation checks for event i
MatchingLog(k, i) ==
    /\ history[k].op = "decode"
    /\ Len(history[k].log.topics) > 1
    /\ history[k].log.topics[1] \in WITHDRAWAL_TOPICS \cup REWARD_TOPICS
    /\ original[i].location_label = transaction.from_address
    /\ transaction.from_address
           = hex_or_bytes_to_address(history[k].log.topics[2])
    /\ \/ original[i].address = ZERO_ADDRESS
       \/ original[i].amount
              = asset_normalized_value(
                    hex_or_bytes_to_int(history[k].log.data),
                    original[i].asset)

WorkerContexts ==
    {[events   |-> evs,
      original |-> evs,
      log      |-> l,
      from     |-> "0xUser",
      i        |-> 1,
      notified |-> <<>>] :
        evs \in {p \in SeqEventLists : Len(p) > 1},
        l \in {x \in SeqLogValues :
                  /\ Len(x.topics) > 1
                  /\ x.topics[1] \in WITHDRAWAL_TOPICS \cup REWARD_TOPICS}}

\* lines 45-93: one pass of the loop body, for the event at ctx.i
DecodeStep(ctx) ==
    IF ~Resolves(ctx.events[ctx.i].asset)
    THEN [ctx EXCEPT
             !.notified = Append(@, <<ctx.i, CPT_CONVEX>>),
             !.i = AfterAssetError(ctx.events, ctx.i)]
    ELSE [ctx EXCEPT
             !.events[ctx.i] = DecodeEvent(ctx.events[ctx.i], ctx.log,
                                           ctx.from),
             !.i = ctx.i + 1]

ContextOf_shared(w) == 1

\* line 41: the context a call works on is its own argument
ContextOf(w) == w

WorkersInit ==
    /\ ManagerIdle
    /\ DecoderIdle
    /\ InquirerIdle
    /\ workers \in [{1, 2} -> WorkerContexts]
    /\ schedule = <<>>

\* worker w runs the loop body once and writes the event into its context
worker_step(w) ==
    LET ctx == DecodeStep(workers[w])
        c   == ContextOf(w)
    IN
    /\ workers[w].i <= Len(workers[w].events)
    /\ workers' = [workers EXCEPT ![c].events = ctx.events,
                                  ![c].i = ctx.i,
                                  ![c].notified = ctx.notified]
    /\ schedule' = Append(schedule, w)
    /\ UNCHANGED <<vars, dvars, nvars>>

WorkersNext == \E w \in {1, 2} : worker_step(w)

WorkersSpec == WorkersInit /\ [][WorkersNext]_allvars

\* what decoding worker w's transaction alone gives
Alone(w) ==
    DecodeCall(workers[w].original, workers[w].log, workers[w].from)

\* C23: whatever the interleaving of the workers' per-event steps, each
\* transaction's events are what decoding it alone gives: the events a
\* worker has passed have their final fields, the others their original
\* ones, and so all have the sequential result when both workers are done.
C23_InterleavingsAgree ==
    \A w \in DOMAIN workers :
        /\ Len(workers[w].events) = Len(workers[w].original)
        /\ \A k \in DOMAIN workers[w].events :
               workers[w].events[k] =
                   IF k < workers[w].i
                       THEN Alone(w).events[k]
                       ELSE workers[w].original[k]
        /\ workers[w].i > Len(workers[w].events) =>
               /\ workers[w].events = Alone(w).events
               /\ workers[w].notified = Alone(w).notified

\* the workers alternated, and both reclassified events
C23_Witness ==
    /\ schedule = <<1, 2, 1, 2>>
    /\ workers[1].events[1].event_type = "DEPOSIT"
    /\ workers[1].events[2].event_type = "WITHDRAWAL"
    /\ workers[2].events[2].event_subtype = "REWARD"
    /\ workers[1].events = Alone(1).events
    /\ workers[2].events = Alone(2).events

====
